---- MODULE Spec2Model ----
(***************************************************************************)
(* State-machine model of two React units of the frontend:                 *)
(*                                                                         *)
(*   - useSupabase (hooks/useSupabase.ts): a hook holding the state cells  *)
(*     `user` and `isUserLoading`, a memoised auth client, and one mount   *)
(*     effect that starts the asynchronous fetchUser.                      *)
(*   - InputModalComponent (components/onboarding/OnboardingBackButton.tsx *)
(*     lines 36-75): a modal with the edit buffer `tempValue`, an effect   *)
(*     keyed on [isOpen, value], and the Save / Cancel handlers.           *)
(*                                                                         *)
(* React's contract is modelled as far as the code relies on it: useState  *)
(* cells persist across renders, useMemo / useEffect compare dependency    *)
(* arrays, an effect runs after the render that scheduled it and before    *)
(* any later render or event handler, and an async function resumes after  *)
(* its await in a later step.                                              *)
(*                                                                         *)
(* Texts and identities are small integers standing for strings / User     *)
(* records; 0 (Null) stands for JavaScript null.                           *)
(***************************************************************************)
EXTENDS Integers, Sequences, FiniteSets

\* ---------------------------------------------------------------- bounds
NumIdentities == 2      \* distinct User records getUser() may return
MaxFetches    == 2      \* cap on fetchUser activations of one hook instance
NumTexts      == 2      \* distinct strings for `value` / the textarea
MaxCalls      == 4      \* cap on the length of the recorded callback log
MaxMounts     == 2      \* hook instances: mounts of the component using the hook

Null       == 0
Identities == 1..NumIdentities
Texts      == 1..NumTexts

\* ============================================================ useSupabase
\* The component that uses the hook may be unmounted and mounted again; every
\* mount is a fresh hook instance with its own state cells, and the closures
\* of an earlier instance keep writing to that instance's cells.
Instances == 1..MaxMounts

VARIABLES
  mounted,        \* per instance: "initial" (never rendered) | "mounted" | "unmounted"
  supabase,       \* per instance, the useMemo cell: "unset" | "client" | "null"
  user,           \* per instance: useState<User | null>(null)
  isUserLoading,  \* per instance: useState(true)
  effectDeps,     \* per instance: dependency array of the last render's useEffect
  effectPending,  \* per instance: the effect is scheduled and has not run yet
  returned,       \* per instance: the object the last render returned
  fetches,        \* per instance: one record per fetchUser() activation
  consoleErrors,  \* messages passed to console.error
  thrown,         \* an exception escaped the hook into its caller
  lateWrites      \* history, per instance: state writes issued after unmount

hookVars == <<mounted, supabase, user, isUserLoading, effectDeps,
              effectPending, returned, fetches, consoleErrors, thrown,
              lateWrites>>

Unset      == "unset"
Client     == "client"
NullClient == "null"
NoDeps     == <<>>

\* Lines 10-18: try { return createBrowserClient(...) }
\*              catch (error) { console.error(...); return null }
\* `throws` is the outcome of createBrowserClient.
CreateClient(throws) ==
  IF throws
    THEN [value |-> NullClient, logged |-> {"Error creating Supabase client"},
          escaped |-> FALSE]
    ELSE [value |-> Client, logged |-> {}, escaped |-> FALSE]

\* useMemo(factory, []): the factory runs on the instance's first render only.
UseMemo(cell, throws) ==
  IF cell = Unset
    THEN CreateClient(throws)
    ELSE [value |-> cell, logged |-> {}, escaped |-> FALSE]

\* useEffect(..., [supabase]): the effect is scheduled when the dependency
\* array differs from the previous render's (always on the first render).
\* Faulty variant: the effect has no dependency array and runs after every render.
DepsChangedAlways(prev, next) == TRUE

DepsChanged(prev, next) == prev /= next

\* Instance k is rendered for the first time once the instance before it is gone.
MayMount(k) == IF k = 1 THEN TRUE ELSE mounted[k - 1] = "unmounted"

\* 1 when a state write of instance k comes after its unmount.
Late(k) == IF mounted[k] = "unmounted" THEN 1 ELSE 0

\* One render of the hook: lines 6-19 and 41, and the scheduling of the effect.
Render(k, throws) ==
  /\ \/ mounted[k] = "mounted"
     \/ mounted[k] = "initial" /\ MayMount(k)
  /\ ~effectPending[k]
  /\ LET memo == UseMemo(supabase[k], throws)
         deps == <<memo.value>>
     IN /\ supabase' = [supabase EXCEPT ![k] = memo.value]
        /\ consoleErrors' = consoleErrors \cup memo.logged
        /\ thrown' = (thrown \/ memo.escaped)
        /\ effectPending' = [effectPending EXCEPT
                               ![k] = DepsChanged(effectDeps[k], deps)]
        /\ effectDeps' = [effectDeps EXCEPT ![k] = deps]
        /\ returned' = [returned EXCEPT
                          ![k] = [supabase |-> memo.value, user |-> user[k],
                                  isUserLoading |-> isUserLoading[k]]]
  /\ mounted' = [mounted EXCEPT ![k] = "mounted"]
  /\ UNCHANGED <<user, isUserLoading, fetches, lateWrites>>

\* Lines 22-25, the effect body for a null client:
\* setIsUserLoading(false); return.
\* Faulty variant: the early return forgets setIsUserLoading(false).
EffectNoClientSkipsWrite(loading) == loading

EffectNoClient(loading) == FALSE

\* Lines 27-38, the effect body with a client: it defines fetchUser and calls
\* it, and nothing else; `loading` is isUserLoading as the effect leaves it.
\* Faulty variant: the effect clears the flag without waiting for fetchUser.
EffectStartEagerLoading(loading) == FALSE

EffectStart(loading) == loading

\* The effect body, lines 22-38.  fetchUser runs synchronously up to its
\* await, i.e. it calls getUser() and suspends at line 28.
RunEffect(k) ==
  /\ mounted[k] = "mounted"
  /\ effectPending[k]
  /\ effectPending' = [effectPending EXCEPT ![k] = FALSE]
  /\ IF supabase[k] = NullClient
       THEN /\ isUserLoading' = [isUserLoading EXCEPT
                                   ![k] = EffectNoClient(isUserLoading[k])]
            /\ UNCHANGED fetches
       ELSE /\ Len(fetches[k]) < MaxFetches
            /\ fetches' = [fetches EXCEPT
                             ![k] = Append(fetches[k],
                                           [pc |-> "L28", error |-> FALSE,
                                            user |-> Null])]
            /\ isUserLoading' = [isUserLoading EXCEPT
                                   ![k] = EffectStart(isUserLoading[k])]
  /\ UNCHANGED <<mounted, supabase, user, effectDeps, returned,
                 consoleErrors, thrown, lateWrites>>

\* Lines 30-34 of fetchUser: what happens to `user` once the response is in.
\* Faulty variant: the success branch forgets setUser.
BranchDropsUser(cur, error, identity) == cur

FetchUserBranch(cur, error, identity) == IF error THEN cur ELSE identity

\* getUser() settles with response = {error} or {data: {user: identity}} and
\* fetchUser resumes: lines 28-34.  The record keeps the response.
FetchUserResume(k, i, error, identity) ==
  /\ i \in DOMAIN fetches[k]
  /\ fetches[k][i].pc = "L28"
  /\ fetches' = [fetches EXCEPT
                   ![k][i] = [pc |-> "L35", error |-> error,
                              user |-> IF error THEN Null ELSE identity]]
  /\ user' = [user EXCEPT ![k] = FetchUserBranch(user[k], error, identity)]
  /\ consoleErrors' = IF error THEN consoleErrors \cup {"Error fetching user"}
                               ELSE consoleErrors
  /\ lateWrites' = [lateWrites EXCEPT
                      ![k] = IF error THEN @ ELSE @ + Late(k)]
  /\ UNCHANGED <<mounted, supabase, isUserLoading, effectDeps, effectPending,
                 returned, thrown>>

\* Line 35: setIsUserLoading(false), on both branches.
\* Faulty variant: setIsUserLoading(false) sits inside the else branch.
FinishOnlyOnSuccess(loading, error) == IF error THEN loading ELSE FALSE

FetchUserFinishValue(loading, error) == FALSE

FetchUserFinish(k, i) ==
  /\ i \in DOMAIN fetches[k]
  /\ fetches[k][i].pc = "L35"
  /\ fetches' = [fetches EXCEPT ![k][i].pc = "done"]
  /\ isUserLoading' = [isUserLoading EXCEPT
                         ![k] = FetchUserFinishValue(isUserLoading[k],
                                                     fetches[k][i].error)]
  /\ lateWrites' = [lateWrites EXCEPT ![k] = @ + Late(k)]
  /\ UNCHANGED <<mounted, supabase, user, effectDeps, effectPending,
                 returned, consoleErrors, thrown>>

\* Lines 21-39: the effect returns no cleanup function, so unmounting leaves
\* every fetchUser activation as it is.
\* Faulty variant: a cleanup that cancels what is pending (the code has none).
CleanupCancels(fs) == [i \in DOMAIN fs |->
                        IF fs[i].pc = "done" THEN fs[i]
                        ELSE [fs[i] EXCEPT !.pc = "cancelled"]]

EffectCleanup(fs) == fs

Unmount(k) ==
  /\ mounted[k] = "mounted"
  /\ ~effectPending[k]
  /\ mounted' = [mounted EXCEPT ![k] = "unmounted"]
  /\ fetches' = [fetches EXCEPT ![k] = EffectCleanup(fetches[k])]
  /\ UNCHANGED <<supabase, user, isUserLoading, effectDeps, effectPending,
                 returned, consoleErrors, thrown, lateWrites>>

HookInit ==
  /\ mounted = [k \in Instances |-> "initial"]
  /\ supabase = [k \in Instances |-> Unset]
  /\ user = [k \in Instances |-> Null]
  /\ isUserLoading = [k \in Instances |-> TRUE]
  /\ effectDeps = [k \in Instances |-> NoDeps]
  /\ effectPending = [k \in Instances |-> FALSE]
  /\ returned = [k \in Instances |->
                  [supabase |-> Unset, user |-> Null, isUserLoading |-> TRUE]]
  /\ fetches = [k \in Instances |-> <<>>]
  /\ consoleErrors = {}
  /\ thrown = FALSE
  /\ lateWrites = [k \in Instances |-> 0]

HookRender      == \E k \in Instances, throws \in BOOLEAN : Render(k, throws)
HookEffect      == \E k \in Instances : RunEffect(k)
GetUserSettles  == \E k \in Instances, i \in 1..MaxFetches, error \in BOOLEAN,
                      identity \in Identities :
                     FetchUserResume(k, i, error, identity)
FetchUserEnds   == \E k \in Instances, i \in 1..MaxFetches : FetchUserFinish(k, i)
HookUnmount     == \E k \in Instances : Unmount(k)

\* ==================================================== InputModalComponent
VARIABLES
  modalMounted,        \* the component has rendered at least once
  isOpen,              \* prop, as of the last render
  value,               \* prop, as of the last render
  tempValue,           \* React.useState(value)
  modalDeps,           \* dependency array [isOpen, value] of the last render
  modalEffectPending,  \* the effect is scheduled and has not run yet
  calls,               \* the callback props invoked so far, in order
  dirty,               \* history: the textarea was edited since the effect
                       \* last copied `value` into the buffer
  last                 \* history: the last step taken and the state before it

modalVars == <<modalMounted, isOpen, value, tempValue, modalDeps,
               modalEffectPending, calls, dirty, last>>

vars == <<hookVars, modalVars>>

OnSave(text) == [fn |-> "onSave", arg |-> text]
OnClose      == [fn |-> "onClose", arg |-> Null]

\* last.op names the step; tick flips on every step of the component, so two
\* equal consecutive steps are still told apart; buf / dirty are the buffer
\* before the step; wasOpen / oldValue are the props before the last render.
Stamp(op) == [op |-> op, tick |-> ~last.tick, buf |-> tempValue,
              dirty |-> dirty, wasOpen |-> isOpen, oldValue |-> value]

\* useEffect(..., [isOpen, value])
\* Faulty variant: the dependency array is [value] only.
ModalDepsOnlyValue(prev, next) == prev = NoDeps \/ prev[2] /= next[2]

ModalDepsChanged(prev, next) == prev /= next

\* The caller renders the component with props isOpen = open, value = val:
\* line 37 (the initial state is used on the first render only) and the
\* scheduling of the effect of lines 40-47.
ModalRender(open, val) ==
  /\ ~modalEffectPending
  /\ modalMounted' = TRUE
  /\ isOpen' = open
  /\ value' = val
  /\ tempValue' = IF modalMounted THEN tempValue ELSE val
  /\ modalEffectPending' = ModalDepsChanged(modalDeps, <<open, val>>)
  /\ modalDeps' = <<open, val>>
  /\ last' = Stamp("render")
  /\ UNCHANGED <<calls, dirty>>

\* Lines 41-46: if (isOpen) { setTempValue(value); select() }
\* Faulty variant: the effect copies `value` without testing isOpen.
EffectBufferAlways(open, val, buf) == val

EffectBuffer(open, val, buf) == IF open THEN val ELSE buf

ModalRunEffect ==
  /\ modalMounted
  /\ modalEffectPending
  /\ modalEffectPending' = FALSE
  /\ tempValue' = EffectBuffer(isOpen, value, tempValue)
  /\ dirty' = IF isOpen THEN FALSE ELSE dirty
  /\ last' = [last EXCEPT !.op = "effect", !.tick = ~last.tick]
  /\ UNCHANGED <<modalMounted, isOpen, value, modalDeps, calls>>

\* The dialog of lines 58-73 exists only while open (line 54), and React runs
\* a scheduled effect before it dispatches an event.
Interactive == modalMounted /\ isOpen /\ ~modalEffectPending

\* Line 66: onChange={(e) => setTempValue(e.target.value)}
Edit(text) ==
  /\ Interactive
  /\ text /= tempValue
  /\ tempValue' = text
  /\ dirty' = TRUE
  /\ last' = Stamp("edit")
  /\ UNCHANGED <<modalMounted, isOpen, value, modalDeps, modalEffectPending,
                 calls>>

\* Lines 49-52: handleSave, the calls it makes in order.
\* Faulty variant: onClose() is called before onSave.
HandleSaveCloseFirst(buf, val) == <<OnClose, OnSave(buf)>>

HandleSave(buf, val) == <<OnSave(buf), OnClose>>

\* Line 70: <Button onClick={handleSave}>Save</Button>
Save ==
  /\ Interactive
  /\ Len(calls) + 2 <= MaxCalls
  /\ calls' = calls \o HandleSave(tempValue, value)
  /\ last' = Stamp("save")
  /\ UNCHANGED <<modalMounted, isOpen, value, tempValue, modalDeps,
                 modalEffectPending, dirty>>

\* Line 69: <Button onClick={onClose}>Cancel</Button>, the calls it makes.
\* Faulty variant: Cancel is wired to handleSave.
CancelSaves(buf) == <<OnSave(buf), OnClose>>

HandleCancel(buf) == <<OnClose>>

Cancel ==
  /\ Interactive
  /\ Len(calls) + 1 <= MaxCalls
  /\ calls' = calls \o HandleCancel(tempValue)
  /\ last' = Stamp("cancel")
  /\ UNCHANGED <<modalMounted, isOpen, value, tempValue, modalDeps,
                 modalEffectPending, dirty>>

ModalInit ==
  /\ modalMounted = FALSE
  /\ isOpen = FALSE
  /\ value = 1
  /\ tempValue = 1
  /\ modalDeps = NoDeps
  /\ modalEffectPending = FALSE
  /\ calls = <<>>
  /\ dirty = FALSE
  /\ last = [op |-> "none", tick |-> FALSE, buf |-> 1, dirty |-> FALSE,
             wasOpen |-> FALSE, oldValue |-> 1]

ModalRenders == \E open \in BOOLEAN, val \in Texts : ModalRender(open, val)
ModalEdits   == \E text \in Texts : Edit(text)

\* ========================================================= specifications
Init == HookInit /\ ModalInit

NextHook ==
  \/ HookRender /\ UNCHANGED modalVars
  \/ HookEffect /\ UNCHANGED modalVars
  \/ GetUserSettles /\ UNCHANGED modalVars
  \/ FetchUserEnds /\ UNCHANGED modalVars
  \/ HookUnmount /\ UNCHANGED modalVars

NextModal ==
  \/ ModalRenders /\ UNCHANGED hookVars
  \/ ModalRunEffect /\ UNCHANGED hookVars
  \/ ModalEdits /\ UNCHANGED hookVars
  \/ Save /\ UNCHANGED hookVars
  \/ Cancel /\ UNCHANGED hookVars

SpecHook == Init /\ [][NextHook]_vars

SpecModal == Init /\ [][NextModal]_vars


\* ================================================================= claims
\* The fetchUser activations of instance k that are at one of the given points.
FetchesAt(k, pcs) == {i \in DOMAIN fetches[k] : fetches[k][i].pc \in pcs}

\* C1: once a fetchUser activation whose getUser() resolved without an error
\* has run to its end, `user` equals the identity of the response and
\* `isUserLoading` is false.
C1_SuccessfulFetch ==
  \A k \in Instances : \A i \in FetchesAt(k, {"done"}) :
    ~fetches[k][i].error =>
      /\ supabase[k] = Client
      /\ user[k] = fetches[k][i].user
      /\ user[k] \in Identities
      /\ isUserLoading[k] = FALSE

\* A successful fetch has ended and a later render has returned its result.
C1_Witness ==
  \E k \in Instances : \E i \in FetchesAt(k, {"done"}) :
    /\ ~fetches[k][i].error
    /\ returned[k] = [supabase |-> Client, user |-> fetches[k][i].user,
                      isUserLoading |-> FALSE]

\* C2: when getUser() settles with response.error set, `user` is not written
\* (it stays null), the error is logged and not thrown, and `isUserLoading`
\* is false once fetchUser has ended; the flag is false after every ended
\* fetch, whatever the outcome.
C2_FailedFetch ==
  \A k \in Instances :
    /\ \A i \in FetchesAt(k, {"L35", "done"}) :
         fetches[k][i].error =>
           /\ user[k] = Null
           /\ "Error fetching user" \in consoleErrors
           /\ ~thrown
    /\ \A i \in FetchesAt(k, {"done"}) : isUserLoading[k] = FALSE

\* A failed fetch has ended and a later render has returned the result.
C2_Witness ==
  \E k \in Instances : \E i \in FetchesAt(k, {"done"}) :
    /\ fetches[k][i].error
    /\ returned[k] = [supabase |-> Client, user |-> Null,
                      isUserLoading |-> FALSE]

\* C3: when createBrowserClient throws, the hook returns a null client,
\* `isUserLoading` is false once the mount effect has run, `user` stays null,
\* getUser() is never called, and the error does not escape the hook.
C3_ConstructionFails ==
  \A k \in Instances :
    supabase[k] = NullClient =>
      /\ returned[k].supabase = NullClient
      /\ user[k] = Null
      /\ fetches[k] = <<>>
      /\ ~thrown
      /\ "Error creating Supabase client" \in consoleErrors
      /\ ~effectPending[k] => isUserLoading[k] = FALSE

\* Construction failed, the effect ran and a later render returned the result.
C3_Witness ==
  \E k \in Instances :
    returned[k] = [supabase |-> NullClient, user |-> Null,
                   isUserLoading |-> FALSE]

\* C7: with a client, getUser() is called exactly once per hook instance: never
\* twice, whatever renders follow, and once as soon as the mount effect has run.
C7_FetchedOnce ==
  \A k \in Instances :
    supabase[k] = Client =>
      /\ Len(fetches[k]) <= 1
      /\ ~effectPending[k] => Len(fetches[k]) = 1

\* The single fetch failed, the hook was rendered again afterwards (the render
\* returned isUserLoading = false), its effects are flushed, and no second
\* getUser() call was made.
C7_Witness ==
  \E k \in Instances :
    /\ mounted[k] = "mounted"
    /\ ~effectPending[k]
    /\ Len(fetches[k]) = 1
    /\ fetches[k][1].pc = "done"
    /\ fetches[k][1].error
    /\ returned[k].isUserLoading = FALSE

\* C8: nothing is cancelled on unmount: the step that unmounts an instance
\* leaves its fetchUser activations as they are, and an activation that ends
\* after the unmount still writes isUserLoading (a write after unmount).
C8_NoCancellation ==
  [][\A k \in Instances :
       /\ (mounted[k] = "mounted" /\ mounted'[k] = "unmounted")
            => fetches'[k] = fetches[k]
       /\ \A i \in FetchesAt(k, {"L35"}) :
            (mounted[k] = "unmounted" /\ fetches'[k][i].pc = "done")
              => /\ isUserLoading'[k] = FALSE
                 /\ lateWrites'[k] = lateWrites[k] + 1]_vars

\* The instance was unmounted while getUser() was pending (its last render
\* still returned isUserLoading = true), and both setUser and
\* setIsUserLoading were issued afterwards.
C8_Witness ==
  \E k \in Instances :
    /\ mounted[k] = "unmounted"
    /\ returned[k].isUserLoading = TRUE
    /\ lateWrites[k] = 2
    /\ user[k] \in Identities
    /\ isUserLoading[k] = FALSE

\* isUserLoading = false implies that construction failed or that a fetch has
\* ended with its outcome stored in `user` (the response's user is null when
\* the response is an error).
C9_LoadingInv ==
  \A k \in Instances :
    isUserLoading[k] = FALSE =>
      \/ supabase[k] = NullClient
      \/ \E i \in FetchesAt(k, {"done"}) : user[k] = fetches[k][i].user

\* C9: C9_LoadingInv holds in every reachable state, and once isUserLoading
\* is false for an instance it never becomes true again.
C9_LoadingFlag ==
  /\ []C9_LoadingInv
  /\ [][\A k \in Instances :
          isUserLoading[k] = FALSE => isUserLoading'[k] = FALSE]_vars

\* One instance stopped loading because construction failed, and the next one
\* because its fetch stored an identity.
C9_Witness ==
  \E k, j \in Instances :
    /\ supabase[k] = NullClient /\ isUserLoading[k] = FALSE
    /\ supabase[j] = Client /\ isUserLoading[j] = FALSE
    /\ user[j] \in Identities

\* Steps of the modal, told by the history variable.
Stepped(op) == last'.op = op /\ last'.tick /= last.tick

\* C4: activating Save appends to the callback log exactly onSave(t), with t
\* the buffer's contents at that moment, followed by exactly one onClose().
C4_SaveCallsSaveThenClose ==
  [][Stepped("save") => calls' = calls \o <<OnSave(tempValue), OnClose>>]_vars

\* The buffer was edited away from `value` and then saved.
C4_Witness ==
  /\ last.op = "save"
  /\ last.dirty
  /\ tempValue /= value
  /\ calls = <<OnSave(tempValue), OnClose>>

\* C5: activating Cancel appends exactly one onClose() to the callback log, no
\* onSave, and changes neither the props nor the buffer.
C5_CancelOnlyCloses ==
  [][Stepped("cancel") =>
       /\ calls' = Append(calls, OnClose)
       /\ value' = value
       /\ isOpen' = isOpen
       /\ tempValue' = tempValue]_vars

\* An edited buffer was cancelled; the caller has heard only onClose().
C5_Witness ==
  /\ last.op = "cancel"
  /\ last.dirty
  /\ tempValue /= value
  /\ calls = <<OnClose>>

\* After a render that opened the modal (isOpen false before it, true after)
\* and the effects it scheduled, the buffer equals the current `value`.
C6_ReopenResets ==
  (/\ modalMounted /\ isOpen /\ ~modalEffectPending
   /\ last.op \in {"render", "effect"}
   /\ ~last.wasOpen)
    => tempValue = value

\* C6: re-opening resets the buffer to the latest `value`, and a Save of a
\* buffer that was not edited since delivers `value` to onSave.
C6_ReopenDiscardsEdit ==
  /\ []C6_ReopenResets
  /\ [][(Stepped("save") /\ ~dirty)
          => calls'[Len(calls) + 1] = OnSave(value)]_vars

\* An edit was cancelled (the only callback so far is that onClose()), the
\* modal was closed and opened again, and the buffer left behind by the edit
\* has been replaced by the current `value`.
C6_Witness ==
  /\ isOpen /\ ~modalEffectPending
  /\ last.op = "effect"
  /\ ~last.wasOpen
  /\ last.dirty
  /\ last.buf /= value
  /\ tempValue = value
  /\ calls = <<OnClose>>

\* C10: the effect overwrites the buffer with `value` when the modal is open
\* and leaves it alone when it is closed; a render that changes `value` of an
\* open modal schedules the effect; and a Save right after such an effect
\* delivers the new `value`.
C10_ValueChangeOverwrites ==
  /\ [][(modalEffectPending /\ ~modalEffectPending')
          => tempValue' = IF isOpen THEN value ELSE tempValue]_vars
  /\ [][(Stepped("render") /\ isOpen /\ isOpen' /\ value' /= value)
          => modalEffectPending']_vars
  /\ [][(Stepped("save") /\ last.op = "effect" /\ last.wasOpen)
          => calls'[Len(calls) + 1] = OnSave(value)]_vars

\* The modal stayed open while `value` changed, and the effect replaced an
\* edited buffer by the new `value`.
C10_Witness ==
  /\ isOpen /\ ~modalEffectPending
  /\ last.op = "effect"
  /\ last.wasOpen
  /\ last.dirty
  /\ last.oldValue /= value
  /\ last.buf /= value
  /\ tempValue = value

====
